---- MODULE Spec2Model ----
(***************************************************************************)
(* otel-tracing-channel: the TracingChannel facade over Node's             *)
(* diagnostics_channel tracing channel (subscribe / unsubscribe with the   *)
(* wrapped start handler) and its Execution Engine (traceSync and          *)
(* tracePromise), together with the Span Recognizer isSpan.                *)
(*                                                                         *)
(* One JavaScript job (a synchronous run up to the next suspension point)  *)
(* is one action.  What the subscribers, the callback and the caller       *)
(* observe is recorded, in order, in the variable log.                     *)
(***************************************************************************)
EXTENDS Integers, Sequences, FiniteSets, TLC

VARIABLES
    chan,       \* the five sub-channels: event -> sequence of registered handlers
    subCount,   \* per subscriber record: subscribe calls minus unsubscribe calls
    nsub,       \* number of subscribe calls made so far
    rt,         \* what otelContext._getContextManager() yields at present
    rec,        \* the Context Records (mutable objects), by identity
    inv,        \* the current traceSync / tracePromise invocation
    log,        \* handler calls, callback body and caller observation, in order
    uncaught,   \* a handler failure was reported as an uncaught exception
    boundStores,  \* TracingChannel._boundStores: storage -> number of entries
    stores,       \* the stores bound on each sub-channel: event -> storage -> entries
    storeHist,    \* per storage, the bindStore / unbindStore calls made with it
    storeCall,    \* the last bindStore / unbindStore call and how it ended
    built,        \* how the construction of the channel (prepChannel) ended
    debugEnabled, \* utils: the module-level debug flag
    console,      \* the lines written to the console since the last call
    probe,        \* the value last handed to isSpan
    verdict,      \* what that isSpan call did
    debugHist,    \* the setDebugFlag and debugLog calls made, in order
    xform,        \* the channel built by the transform-based factory
    jobs,         \* concurrent tracePromise invocations, one per Context Record
    als           \* the store left current by the code that ran last

\* the variables traceSync / tracePromise, subscribe and unsubscribe never touch
others == <<debugHist, xform, jobs, als>>

aux == <<boundStores, stores, storeHist, storeCall, built, debugEnabled, probe, verdict,
         others>>

vars == <<chan, subCount, nsub, rt, rec, inv, log, uncaught, boundStores, stores,
          storeHist, storeCall, built, debugEnabled, console, probe, verdict,
          debugHist, xform, jobs, als>>

----------------------------------------------------------------------------
(* Bounds *)

MaxSubscribeCalls == 2

----------------------------------------------------------------------------
(* Values *)

Events == {"start", "asyncStart", "asyncEnd", "end", "error"}

\* @opentelemetry/api sentinels
INVALID_TRACEID == "00000000000000000000000000000000"

INVALID_SPANID == "0000000000000000"

\* What isSpan reads of a value: whether it is a non-null object, whether it
\* has a spanContext member and whether that member is callable, what calling
\* it does (it returns an object, returns null or throws) and the identifiers
\* of the object it returns.  An empty identifier stands for a falsy one.
Shape(o, has, fn, acc, t, sp) ==
    [isObject |-> o, hasSpanContext |-> has, isFunction |-> fn, accessor |-> acc,
     traceId |-> t, spanId |-> sp]

\* The values a start handler may return.
StartResult ==
    [ spanA       |-> Shape(TRUE, TRUE, TRUE, "object", "trace-A", "span-A"),
      spanB       |-> Shape(TRUE, TRUE, TRUE, "object", "trace-B", "span-B"),
      invalidSpan |-> Shape(TRUE, TRUE, TRUE, "object", INVALID_TRACEID, "span-C"),
      plainObject |-> Shape(TRUE, FALSE, FALSE, "null", "", ""),
      undefined   |-> Shape(FALSE, FALSE, FALSE, "null", "", "") ]

\* utils.isSpan as the tracing channel's utils module has it: the member is
\* called and the identifiers of what it returns are checked.  The call is
\* not guarded, so a member that throws makes isSpan throw.
isSpanOutcome(v) ==
    IF ~(v.isObject /\ v.hasSpanContext /\ v.isFunction)
    THEN "false"
    ELSE IF v.accessor = "throws"
    THEN "throws"
    ELSE IF /\ v.accessor = "object"
            /\ v.traceId # ""
            /\ v.traceId # INVALID_TRACEID
            /\ v.spanId # ""
            /\ v.spanId # INVALID_SPANID
    THEN "true"
    ELSE "false"

\* utils.isSpan of src/utils.ts: the member must be a function; it is not called
isSpanLegacy(v) ==
    IF v.isObject /\ v.hasSpanContext /\ v.isFunction THEN "true" ELSE "false"

\* utils.isSpan: the Span Recognizer, on a value a start handler returned
isSpan(value) == isSpanOutcome(StartResult[value]) = "true"

\* isSpan(value) raises instead of answering
isSpanThrows(value) == isSpanOutcome(StartResult[value]) = "throws"

\* An OpenTelemetry Context: the span it carries and its other entries (base).
Ctx(base, span) == [base |-> base, span |-> span]

ROOT_CONTEXT == Ctx("root", "none")

\* the value of a field that is not set (undefined)
NoCtx == Ctx("undefined", "undefined")

\* trace.setSpan(context, span): a new context carrying span
setSpan(context, span) == [context EXCEPT !.span = span]

\* the contexts a caller may be running in when it calls traceSync / tracePromise
AmbientContexts == {ROOT_CONTEXT, Ctx("request", "outerSpan")}

\* otelContext._getContextManager(): a manager holding an AsyncLocalStorage, a
\* manager without one, null, or an accessor that is missing / throws
RuntimeStates == {"storage", "noStorage", "null", "throws"}

\* the accessor call itself raises
AccessorThrows(runtime) == runtime = "throws"

\* otelContext.active() needs a context manager
ActiveThrows(runtime) == runtime \in {"null", "throws"}

\* otelContext.active(): the store of the AsyncLocalStorage, ROOT_CONTEXT
\* when the manager keeps none
active(runtime, store) == IF runtime = "storage" THEN store ELSE ROOT_CONTEXT

\* what code running now would read as the active context (NoCtx: unreadable)
Observed(runtime, store) ==
    IF ActiveThrows(runtime) THEN NoCtx ELSE active(runtime, store)

----------------------------------------------------------------------------
(* Subscriber records: the handlers each one carries and what its start    *)
(* handler returns.                                                        *)

Subscribers ==
    [ s1 |-> [events |-> {"start", "asyncStart", "asyncEnd", "end", "error"},
              ret |-> "spanA"],
      s2 |-> [events |-> {"start"}, ret |-> "spanB"],
      s3 |-> [events |-> {"start", "error", "end"}, ret |-> "plainObject"],
      s4 |-> [events |-> {"asyncStart", "asyncEnd", "end", "error"}, ret |-> "undefined"] ]

SubscriberIds == DOMAIN Subscribers

\* a registered handler: the record it came from, and whether it is the
\* facade's wrapper around that record's start handler
Handler(s, w) == [sub |-> s, wrapped |-> w]

RecordIds == {"r1"}

\* a Context Record as the caller creates it
FreshRecord ==
    [foo |-> "bar", otelSpanContext |-> NoCtx, error |-> "undefined", span |-> "undefined"]

\* no data (the callback and the caller receive no record)
NoData ==
    [foo |-> "undefined", otelSpanContext |-> NoCtx, error |-> "undefined",
     span |-> "undefined"]

Result(ok, val) == [ok |-> ok, val |-> val]

Pending == Result(TRUE, "pending")

\* what calling the callback directly yields
Direct(outcome) ==
    IF outcome \in {"return", "resolve"}
    THEN Result(TRUE, "value-42")
    ELSE Result(FALSE, "error-x")

Idle == [kind |-> "none", pc |-> "idle", r |-> "r1", outcome |-> "return",
         amb |-> ROOT_CONTEXT, rec0 |-> FreshRecord, fast |-> FALSE,
         result |-> Pending]

----------------------------------------------------------------------------
(* The event-channel primitive (node:diagnostics_channel)                  *)

\* Channel.hasSubscribers of one sub-channel
hasSubscribers(ev) == Len(chan[ev]) > 0

\* TracingChannel.hasSubscribers: any of the five sub-channels has one
channelHasSubscribers == \E ev \in Events : hasSubscribers(ev)

\* Channel.unsubscribe(fn): removes the first registration of that very function
RECURSIVE RemoveFirst(_, _)
RemoveFirst(seq, h) ==
    IF seq = <<>> THEN <<>>
    ELSE IF Head(seq) = h THEN Tail(seq)
    ELSE <<Head(seq)>> \o RemoveFirst(Tail(seq), h)

\* one observation: who was called, with which record (the caller's own object
\* or a copy), the record's fields at that moment and the active context
Entry(ev, sub, orig, data, act) ==
    [ev |-> ev, sub |-> sub, orig |-> orig, data |-> data, active |-> act]

\* The running job: the log, the Context Records, the uncaught-exception flag
\* and the console.
Machine(l, recs, u, c) == [log |-> l, rec |-> recs, uncaught |-> u, console |-> c]

\* the prefix debugLog puts before its arguments
LogPrefix == "[otel-tracing-channel]"

\* debugLog that writes its line whatever the debug flag
debugLogAlways(M, line) ==
    [M EXCEPT !.console = Append(@, <<LogPrefix, line>>)]

\* utils.debugLog(...args): one console line, the prefix and then the
\* arguments, only while the debug flag is set
debugLog(M, line) ==
    IF debugEnabled
    THEN [M EXCEPT !.console = Append(@, <<LogPrefix, line>>)]
    ELSE M

\* utils.setDebugFlag(debug): the value the flag takes
setDebugFlag(debug) == debug

\* the span the tracing subscriber's start handler creates for each record
SpanOf == [r1 |-> "spanA", r2 |-> "spanB"]

\* originalStart(data): what the start handler of subscriber s returns for
\* record r (the tracing subscriber starts one span per record)
StartReturn(s, r) == IF s = "tracer" THEN SpanOf[r] ELSE Subscribers[s].ret

\* wrapped start handler that never stores the context of a returned span
WrappedStartNoCapture(h, r, M, runtime, store) ==
    [M EXCEPT !.log = Append(@, Entry("start", h.sub, TRUE, M.rec[r],
                                      Observed(runtime, store)))]

\* wrapped start handler that stores a context for whatever the handler returned
WrappedStartAlwaysCapture(h, r, M, runtime, store) ==
    LET called == [M EXCEPT !.log = Append(@, Entry("start", h.sub, TRUE, M.rec[r],
                                                   Observed(runtime, store)))]
        result == Subscribers[h.sub].ret
    IN  IF ActiveThrows(runtime)
        THEN [called EXCEPT !.uncaught = TRUE]
        ELSE [called EXCEPT !.rec[r].otelSpanContext =
                                setSpan(active(runtime, store), result)]

\* wrapped start handler that leaves a context captured by an earlier handler
WrappedStartKeepsFirst(h, r, M, runtime, store) ==
    LET called == [M EXCEPT !.log = Append(@, Entry("start", h.sub, TRUE, M.rec[r],
                                                   Observed(runtime, store)))]
        result == StartReturn(h.sub, r)
    IN  IF isSpan(result)
        THEN IF ActiveThrows(runtime)
             THEN [called EXCEPT !.uncaught = TRUE]
             ELSE IF M.rec[r].otelSpanContext # NoCtx
             THEN called
             ELSE [called EXCEPT !.rec[r].otelSpanContext =
                                     setSpan(active(runtime, store), result)]
        ELSE debugLog(called, "start handler returned a non-span value")

\* wrapped start handler that drops the captured context when its handler
\* returned no span
WrappedStartClearsOnNonSpan(h, r, M, runtime, store) ==
    LET called == [M EXCEPT !.log = Append(@, Entry("start", h.sub, TRUE, M.rec[r],
                                                   Observed(runtime, store)))]
        result == StartReturn(h.sub, r)
    IN  IF isSpan(result)
        THEN IF ActiveThrows(runtime)
             THEN [called EXCEPT !.uncaught = TRUE]
             ELSE [called EXCEPT !.rec[r].otelSpanContext =
                                     setSpan(active(runtime, store), result)]
        ELSE [debugLog(called, "start handler returned a non-span value")
                EXCEPT !.rec[r].otelSpanContext = NoCtx]

\* subscribe's wrapper around a start handler: calls the original handler and,
\* when it returned a span, stores setSpan(active(), span) on the record.
\* active() failing inside the handler ends the handler; publish reports it.
WrappedStart(h, r, M, runtime, store) ==
    LET called == [M EXCEPT !.log = Append(@, Entry("start", h.sub, TRUE, M.rec[r],
                                                   Observed(runtime, store)))]
        result == StartReturn(h.sub, r)
    IN  IF isSpanThrows(result)
        THEN [called EXCEPT !.uncaught = TRUE]
        ELSE IF isSpan(result)
        THEN IF ActiveThrows(runtime)
             THEN [called EXCEPT !.uncaught = TRUE]
             ELSE [called EXCEPT !.rec[r].otelSpanContext =
                                     setSpan(active(runtime, store), result)]
        ELSE debugLog(called, "start handler returned a non-span value")

\* a handler registered as the subscriber passed it
PlainHandler(ev, h, r, orig, data, M, runtime, store) ==
    [M EXCEPT !.log = Append(@, Entry(ev, h.sub, orig,
                                      IF orig THEN M.rec[r] ELSE data,
                                      Observed(runtime, store)))]

\* Channel.publish(data): every registered handler, in registration order.
\* orig: data is the caller's record r itself; otherwise data is a copy.
RECURSIVE PublishFrom(_, _, _, _, _, _, _, _)
PublishFrom(i, ev, r, orig, data, M, runtime, store) ==
    IF i > Len(chan[ev]) THEN M
    ELSE LET h == chan[ev][i]
             next == IF h.wrapped
                     THEN WrappedStart(h, r, M, runtime, store)
                     ELSE PlainHandler(ev, h, r, orig, data, M, runtime, store)
         IN  PublishFrom(i + 1, ev, r, orig, data, next, runtime, store)

\* if (channel.<ev>.hasSubscribers) channel.<ev>.publish(data)
Publish(ev, r, orig, data, M, runtime, store) ==
    IF hasSubscribers(ev)
    THEN PublishFrom(1, ev, r, orig, data, M, runtime, store)
    ELSE M

\* callback(...args): the callback body starts running
Callback(M, runtime, store) ==
    [M EXCEPT !.log = Append(@, Entry("fn", "callback", FALSE, NoData,
                                      Observed(runtime, store)))]

----------------------------------------------------------------------------
(* The Execution Engine                                                    *)

\* what one job of an invocation leaves: the machine, where the invocation
\* stands, its result so far, and whether it took the no-subscriber fast path
Step(m, pc, result, fast) == [m |-> m, pc |-> pc, result |-> result, fast |-> fast]

\* catch block that publishes end before error
traceSyncCatchEndFirst(r, error, M, runtime, store) ==
    LET errorContext == [M.rec[r] EXCEPT !.error = error]
        m1 == Publish("end", r, TRUE, NoData, M, runtime, store)
        m2 == Publish("error", r, FALSE, errorContext, m1, runtime, store)
    IN  Step(m2, "done", Result(FALSE, error), FALSE)

\* catch block that puts the error on the caller's record and publishes that
traceSyncCatchInPlace(r, error, M, runtime, store) ==
    LET m0 == [M EXCEPT !.rec[r].error = error]
        m1 == Publish("error", r, TRUE, NoData, m0, runtime, store)
        m2 == Publish("end", r, TRUE, NoData, m1, runtime, store)
    IN  Step(m2, "done", Result(FALSE, error), FALSE)

\* traceSync's catch block: the error event with a copy of the record plus the
\* error, the end event with the record itself, then the error is re-raised
traceSyncCatch(r, error, M, runtime, store) ==
    LET errorContext == [M.rec[r] EXCEPT !.error = error]
        m1 == Publish("error", r, FALSE, errorContext, M, runtime, store)
        m2 == Publish("end", r, TRUE, NoData, m1, runtime, store)
    IN  Step(m2, "done", Result(FALSE, error), FALSE)

\* traceSync whose fast path calls the callback and drops what it returns
traceSyncNoReturn(r, outcome, M, runtime, store) ==
    IF ~channelHasSubscribers
    THEN Step(Callback(M, runtime, store), "done",
              IF outcome = "return" THEN Result(TRUE, "undefined") ELSE Direct(outcome),
              TRUE)
    ELSE LET m1 == Publish("start", r, TRUE, NoData, M, runtime, store)
             m2 == Callback(m1, runtime, store)
         IN  IF outcome = "return"
             THEN Step(Publish("end", r, TRUE, NoData, m2, runtime, store),
                       "done", Direct(outcome), FALSE)
             ELSE traceSyncCatch(r, Direct(outcome).val, m2, runtime, store)

\* traceSync that runs the callback inside the context its start handlers stored
traceSyncSwitches(r, outcome, M, runtime, store) ==
    IF ~channelHasSubscribers
    THEN Step(Callback(M, runtime, store), "done", Direct(outcome), TRUE)
    ELSE LET m1 == Publish("start", r, TRUE, NoData, M, runtime, store)
             m2 == Callback(m1, runtime,
                            IF m1.rec[r].otelSpanContext # NoCtx
                            THEN m1.rec[r].otelSpanContext ELSE store)
         IN  IF outcome = "return"
             THEN Step(Publish("end", r, TRUE, NoData, m2, runtime, store),
                       "done", Direct(outcome), FALSE)
             ELSE traceSyncCatch(r, Direct(outcome).val, m2, runtime, store)

\* traceSync that also publishes asyncEnd when the callback has returned
traceSyncPublishesAsync(r, outcome, M, runtime, store) ==
    IF ~channelHasSubscribers
    THEN Step(Callback(M, runtime, store), "done", Direct(outcome), TRUE)
    ELSE LET m1 == Publish("start", r, TRUE, NoData, M, runtime, store)
             m2 == Callback(m1, runtime, store)
         IN  IF outcome = "return"
             THEN LET m3 == Publish("asyncEnd", r, TRUE, NoData, m2, runtime, store)
                  IN  Step(Publish("end", r, TRUE, NoData, m3, runtime, store),
                           "done", Direct(outcome), FALSE)
             ELSE traceSyncCatch(r, Direct(outcome).val, m2, runtime, store)

\* traceSync(callback, context): one synchronous job
traceSync(r, outcome, M, runtime, store) ==
    IF ~channelHasSubscribers
    THEN Step(Callback(M, runtime, store), "done", Direct(outcome), TRUE)
    ELSE LET m1 == Publish("start", r, TRUE, NoData, M, runtime, store)
             m2 == Callback(m1, runtime, store)
         IN  IF outcome = "return"
             THEN Step(Publish("end", r, TRUE, NoData, m2, runtime, store),
                       "done", Direct(outcome), FALSE)
             ELSE traceSyncCatch(r, Direct(outcome).val, m2, runtime, store)

\* catch block that publishes only the error, without the record's fields
tracePromiseCatchNoSpread(r, error, M, runtime, store) ==
    LET errorContext == [NoData EXCEPT !.error = error]
        m1 == Publish("error", r, FALSE, errorContext, M, runtime, store)
        m2 == Publish("end", r, TRUE, NoData, m1, runtime, store)
    IN  Step(m2, "settled", Result(FALSE, error), FALSE)

\* catch block that publishes end before error
tracePromiseCatchEndFirst(r, error, M, runtime, store) ==
    LET errorContext == [M.rec[r] EXCEPT !.error = error]
        m1 == Publish("end", r, TRUE, NoData, M, runtime, store)
        m2 == Publish("error", r, FALSE, errorContext, m1, runtime, store)
    IN  Step(m2, "settled", Result(FALSE, error), FALSE)

\* tracePromise's catch block
tracePromiseCatch(r, error, M, runtime, store) ==
    LET errorContext == [M.rec[r] EXCEPT !.error = error]
        m1 == Publish("error", r, FALSE, errorContext, M, runtime, store)
        m2 == Publish("end", r, TRUE, NoData, m1, runtime, store)
    IN  Step(m2, "settled", Result(FALSE, error), FALSE)

\* direct call that publishes end as soon as the callback has returned its promise
tracePromiseDirectEagerEnd(r, outcome, M, runtime, store) ==
    LET m == Callback(M, runtime, store)
    IN  IF outcome = "throwSync"
        THEN tracePromiseCatch(r, Direct(outcome).val, m, runtime, store)
        ELSE Step(Publish("end", r, TRUE, NoData, m, runtime, store),
                  "await", Pending, FALSE)

\* result = await callback(...args): a callback that throws before returning a
\* promise lands in the catch block in the same job
tracePromiseDirect(r, outcome, M, runtime, store) ==
    LET m == Callback(M, runtime, store)
    IN  IF outcome = "throwSync"
        THEN tracePromiseCatch(r, Direct(outcome).val, m, runtime, store)
        ELSE Step(m, "await", Pending, FALSE)

\* the try block of tracePromise up to its await: the callback is run inside
\* the record's span context when there is one and the context manager has an
\* AsyncLocalStorage.  The manager is read without a null check.
tracePromiseRun(r, outcome, M, runtime, store) ==
    LET spanContext == M.rec[r].otelSpanContext
    IN  IF spanContext # NoCtx
        THEN IF AccessorThrows(runtime) \/ runtime = "null"
             THEN tracePromiseCatch(r, "TypeError", M, runtime, store)
             ELSE IF runtime = "storage"
             THEN Step(Callback(debugLog(M, "running callback in span context"),
                                runtime, spanContext),
                       "await", Pending, FALSE)
             ELSE tracePromiseDirect(r, outcome, M, runtime, store)
        ELSE tracePromiseDirect(r, outcome, M, runtime, store)

\* tracePromise that publishes asyncStart only once the callback has been called
tracePromiseCallAsyncStartLate(r, outcome, M, runtime, store) ==
    IF ~channelHasSubscribers
    THEN LET m == Callback(M, runtime, store)
         IN  IF outcome = "throwSync"
             THEN Step(m, "settled", Direct(outcome), TRUE)
             ELSE Step(m, "await", Pending, TRUE)
    ELSE LET m1 == Publish("start", r, TRUE, NoData, M, runtime, store)
             s1 == tracePromiseRun(r, outcome, m1, runtime, store)
         IN  [s1 EXCEPT !.m = Publish("asyncStart", r, TRUE, NoData, s1.m, runtime, store)]

\* tracePromise(callback, context): the job of the call, up to the first await
tracePromiseCall(r, outcome, M, runtime, store) ==
    IF ~channelHasSubscribers
    THEN LET m == Callback(M, runtime, store)
         IN  IF outcome = "throwSync"
             THEN Step(m, "settled", Direct(outcome), TRUE)
             ELSE Step(m, "await", Pending, TRUE)
    ELSE LET m1 == Publish("start", r, TRUE, NoData, M, runtime, store)
             m2 == Publish("asyncStart", r, TRUE, NoData, m1, runtime, store)
         IN  tracePromiseRun(r, outcome, m2, runtime, store)

\* continuation that swallows a rejection and goes on waiting
tracePromiseSettleSwallowsRejection(r, outcome, fast, M, runtime, store) ==
    IF outcome = "resolve"
    THEN IF fast
         THEN Step(M, "settled", Direct(outcome), TRUE)
         ELSE LET m1 == Publish("asyncEnd", r, TRUE, NoData, M, runtime, store)
                  m2 == Publish("end", r, TRUE, NoData, m1, runtime, store)
              IN  Step(m2, "settled", Direct(outcome), FALSE)
    ELSE Step(M, "await", Pending, fast)

\* continuation that publishes asyncEnd after a rejection as well
tracePromiseSettleAsyncEndAlways(r, outcome, fast, M, runtime, store) ==
    IF fast
    THEN Step(M, "settled", Direct(outcome), TRUE)
    ELSE LET m1 == Publish("asyncEnd", r, TRUE, NoData, M, runtime, store)
         IN  IF outcome = "resolve"
             THEN Step(Publish("end", r, TRUE, NoData, m1, runtime, store),
                       "settled", Direct(outcome), FALSE)
             ELSE tracePromiseCatch(r, Direct(outcome).val, m1, runtime, store)

\* tracePromise after the awaited callback has settled
tracePromiseSettle(r, outcome, fast, M, runtime, store) ==
    IF fast
    THEN Step(M, "settled", Direct(outcome), TRUE)
    ELSE IF outcome = "resolve"
    THEN LET m1 == Publish("asyncEnd", r, TRUE, NoData, M, runtime, store)
             m2 == Publish("end", r, TRUE, NoData, m1, runtime, store)
         IN  Step(m2, "settled", Direct(outcome), FALSE)
    ELSE tracePromiseCatch(r, Direct(outcome).val, M, runtime, store)

----------------------------------------------------------------------------
(* TracingChannelFixed (src/tracingChannel.ts): subscribe registers the     *)
(* handlers as they are, and the start handler itself is expected to store  *)
(* the context to run in on the record (its _spanContext slot, modelled by  *)
(* the same field as the captured context).                                 *)

\* console.log(...args): one console line, whatever the debug flag
consoleLog(M, line) == [M EXCEPT !.console = Append(@, <<line>>)]

\* a start handler written for TracingChannelFixed: it creates its span and
\* stores setSpan(active(), span) on the record
StartHandlerFixed(h, r, M, runtime, store) ==
    LET called == [M EXCEPT !.log = Append(@, Entry("start", h.sub, TRUE, M.rec[r],
                                                   Observed(runtime, store)))]
        result == Subscribers[h.sub].ret
    IN  IF ~isSpan(result)
        THEN called
        ELSE IF ActiveThrows(runtime)
        THEN [called EXCEPT !.uncaught = TRUE]
        ELSE [called EXCEPT !.rec[r].otelSpanContext =
                                setSpan(active(runtime, store), result)]

\* this._channel.start.publish(context)
RECURSIVE PublishStartFixed(_, _, _, _, _)
PublishStartFixed(i, r, M, runtime, store) ==
    IF i > Len(chan["start"]) THEN M
    ELSE PublishStartFixed(i + 1, r,
                           StartHandlerFixed(chan["start"][i], r, M, runtime, store),
                           runtime, store)

\* the try block of TracingChannelFixed.tracePromise up to its await: the
\* manager is read null-safely, and the line announcing the run in the span
\* context is written with console.log
tracePromiseFixedRun(r, outcome, M, runtime, store) ==
    LET spanContext == M.rec[r].otelSpanContext
    IN  IF spanContext # NoCtx
        THEN IF AccessorThrows(runtime)
             THEN tracePromiseCatch(r, "TypeError", M, runtime, store)
             ELSE IF runtime = "storage"
             THEN Step(Callback(consoleLog(M, "running callback in span context"),
                                runtime, spanContext),
                       "await", Pending, FALSE)
             ELSE tracePromiseDirect(r, outcome, M, runtime, store)
        ELSE tracePromiseDirect(r, outcome, M, runtime, store)

\* TracingChannelFixed.tracePromise(callback, context): the job of the call
tracePromiseFixedCall(r, outcome, M, runtime, store) ==
    IF ~channelHasSubscribers
    THEN LET m == Callback(M, runtime, store)
         IN  IF outcome = "throwSync"
             THEN Step(m, "settled", Direct(outcome), TRUE)
             ELSE Step(m, "await", Pending, TRUE)
    ELSE LET m1 == PublishStartFixed(1, r, M, runtime, store)
             m2 == Publish("asyncStart", r, TRUE, NoData, m1, runtime, store)
         IN  tracePromiseFixedRun(r, outcome, m2, runtime, store)

----------------------------------------------------------------------------
(* Store binding and construction                                          *)

\* the AsyncLocalStorage instances a caller may hand to bindStore / unbindStore
Storages == {"otelStorage", "userStorage"}

\* ... and a value that is not an AsyncLocalStorage
StoreArgs == Storages \cup {"notStorage"}

\* storage instanceof AsyncLocalStorage
isAsyncLocalStorage(x) == x \in Storages

\* a collection keyed by value, as the number of entries held for each value
NoStores == [x \in StoreArgs |-> 0]

\* Set.prototype.add / Map.prototype.set: at most one entry per value
SetAdd(set, x) == [set EXCEPT ![x] = 1]

\* Set.prototype.delete / Map.prototype.delete: no entry left, none needed
SetDelete(set, x) == [set EXCEPT ![x] = 0]

\* how a bindStore / unbindStore call ends: the error it raised, if any, the
\* Bound Storage Set and the stores bound on the five sub-channels
Binding(err, bs, st) == [error |-> err, boundStores |-> bs, stores |-> st]

\* bindStore that keeps one more entry for every call
bindStoreCounting(x, bs, st) ==
    IF ~isAsyncLocalStorage(x)
    THEN Binding("TypeError", bs, st)
    ELSE Binding("none", [bs EXCEPT ![x] = @ + 1],
                 [ev \in Events |-> [st[ev] EXCEPT ![x] = @ + 1]])

\* bindStore that records the storage before it validates it
bindStoreValidatesLate(x, bs, st) ==
    Binding(IF isAsyncLocalStorage(x) THEN "none" ELSE "TypeError",
            SetAdd(bs, x), [ev \in Events |-> SetAdd(st[ev], x)])

\* bindStore that binds the storage on the start sub-channel only
bindStoreStartOnly(x, bs, st) ==
    IF ~isAsyncLocalStorage(x)
    THEN Binding("TypeError", bs, st)
    ELSE Binding("none", SetAdd(bs, x),
                 [ev \in Events |-> IF ev = "start" THEN SetAdd(st[ev], x) ELSE st[ev]])

\* TracingChannel.bindStore(storage)
bindStore(x, bs, st) ==
    IF ~isAsyncLocalStorage(x)
    THEN Binding("TypeError", bs, st)
    ELSE Binding("none", SetAdd(bs, x), [ev \in Events |-> SetAdd(st[ev], x)])

\* unbindStore that rejects a storage it does not hold
unbindStoreStrict(x, bs, st) ==
    IF bs[x] = 0
    THEN Binding("Error", bs, st)
    ELSE Binding("none", SetDelete(bs, x), [ev \in Events |-> SetDelete(st[ev], x)])

\* TracingChannel.unbindStore(storage)
unbindStore(x, bs, st) ==
    Binding("none", SetDelete(bs, x), [ev \in Events |-> SetDelete(st[ev], x)])

\* new TracingChannel(name): nothing bound, nothing logged
NewChannel ==
    [threw |-> FALSE, returned |-> "nothing", storage |-> FALSE,
     boundStores |-> NoStores, stores |-> [ev \in Events |-> NoStores],
     console |-> <<>>]

\* prepChannel without its try / catch and without the null-safe member read
prepChannelUnguarded(runtime, channel) ==
    IF AccessorThrows(runtime) \/ runtime = "null"
    THEN [channel EXCEPT !.threw = TRUE]
    ELSE IF runtime = "storage"
    THEN LET b == bindStore("otelStorage", channel.boundStores, channel.stores)
         IN  [debugLog(channel, "binding channel to otel context") EXCEPT
                 !.storage = TRUE, !.boundStores = b.boundStores,
                 !.stores = b.stores, !.returned = "channel"]
    ELSE [debugLog(channel, "could not access otel context storage") EXCEPT
             !.returned = "channel"]

\* prepChannel(channel): binds the context manager's AsyncLocalStorage when
\* there is one; a failing accessor is caught; the channel passed in is
\* returned on every path
prepChannel(runtime, channel) ==
    IF AccessorThrows(runtime)
    THEN [debugLog(channel, "error accessing context manager") EXCEPT
             !.returned = "channel"]
    ELSE IF runtime = "storage"
    THEN LET b == bindStore("otelStorage", channel.boundStores, channel.stores)
         IN  [debugLog(channel, "binding channel to otel context") EXCEPT
                 !.storage = TRUE, !.boundStores = b.boundStores,
                 !.stores = b.stores, !.returned = "channel"]
    ELSE [debugLog(channel, "could not access otel context storage") EXCEPT
             !.returned = "channel"]

\* tracingChannel(name): prepChannel(new TracingChannel(name))
tracingChannel(runtime) == prepChannel(runtime, NewChannel)

\* the bound on the bindStore / unbindStore calls made with one storage
MaxStoreCalls == 3

----------------------------------------------------------------------------
(* The transform-based factory (src/tracingChannel.ts)                     *)

\* The channel tracingChannel(name, transformStart) returns is the platform's
\* own TracingChannel; its traceSync enters the stores bound on the start
\* sub-channel (start.runStores) around the start publication, the callback
\* and the end / error publications.

\* no channel has been built by the transform-based factory
NoTransform ==
    [ret |-> "none", runtime |-> "none", bound |-> FALSE, calls |-> 0, stored |-> NoCtx]

\* what the caller's transformStart may return
TransformReturns == DOMAIN StartResult

\* factory that binds the transform whatever the context manager is
transformChannelAlwaysBinds(ret, runtime, M) ==
    [m |-> debugLog(M, "otel context bound to tracing channel"), bound |-> TRUE]

\* tracingChannel(name, transformStart): the transform is bound on the start
\* sub-channel when the context manager has an AsyncLocalStorage
transformChannel(ret, runtime, M) ==
    IF AccessorThrows(runtime)
    THEN [m |-> debugLog(M, "error setting up otel context binding"), bound |-> FALSE]
    ELSE IF runtime # "storage"
    THEN [m |-> debugLog(debugLog(M, "could not access otel storage"),
                         "context propagation will not work"),
          bound |-> FALSE]
    ELSE [m |-> debugLog(debugLog(M, "found otel storage"),
                         "otel context bound to tracing channel"),
          bound |-> TRUE]

\* what one call of the bound transform leaves: the machine, whether it threw,
\* and the context it returned for the store
Transformed(m, threw, ctx) == [m |-> m, threw |-> threw, ctx |-> ctx]

\* the transform bound on the start sub-channel: calls transformStart(data);
\* a value that is not a span leaves the active context as the store's value;
\* a span is put on data.span and the active context carrying it is returned.
\* isSpan is the one this module imports from ./utils (src/utils.ts).
bindStoreTransform(ret, r, M, runtime, store) ==
    LET m1 == debugLog(M, "creating span in bindStore transform")
    IN  IF isSpanLegacy(StartResult[ret]) # "true"
        THEN LET m2 == debugLog(m1, "transformStart returned a non-span value")
             IN  IF ActiveThrows(runtime)
                 THEN Transformed(m2, TRUE, NoCtx)
                 ELSE Transformed(m2, FALSE, active(runtime, store))
        ELSE LET m2 == [m1 EXCEPT !.rec[r].span = ret]
             IN  IF ActiveThrows(runtime)
                 THEN Transformed(m2, TRUE, NoCtx)
                 ELSE Transformed(debugLog(m2, "returning context to AsyncLocalStorage"),
                                  FALSE, setSpan(active(runtime, store), ret))

\* start.runStores(context, fn) up to fn: the transform gives the value the
\* bound store is entered with (a transform that throws is reported as an
\* uncaught exception and the store is not entered), then start is published
RunStores(t, r, M, runtime, store) ==
    IF ~t.bound
    THEN [m |-> Publish("start", r, TRUE, NoData, M, runtime, store),
          calls |-> 0, stored |-> NoCtx, inside |-> store]
    ELSE LET x == bindStoreTransform(t.ret, r, M, runtime, store)
             m == IF x.threw THEN [x.m EXCEPT !.uncaught = TRUE] ELSE x.m
             inside == IF x.threw THEN store ELSE x.ctx
         IN  [m |-> Publish("start", r, TRUE, NoData, m, runtime, inside),
              calls |-> 1, stored |-> x.ctx, inside |-> inside]

\* the platform's traceSync on the channel the factory returned: the callback
\* and the end / error publications run inside the store; a thrown error is
\* put on the record itself before error is published
traceSyncNative(t, r, outcome, M, runtime, store) ==
    IF ~(channelHasSubscribers \/ t.bound)
    THEN [step |-> Step(Callback(M, runtime, store), "done", Direct(outcome), TRUE),
          calls |-> 0, stored |-> NoCtx]
    ELSE LET run == RunStores(t, r, M, runtime, store)
             m2 == Callback(run.m, runtime, run.inside)
             m3 == IF outcome = "return" THEN m2
                   ELSE Publish("error", r, TRUE, NoData,
                                [m2 EXCEPT !.rec[r].error = Direct(outcome).val],
                                runtime, run.inside)
             m4 == Publish("end", r, TRUE, NoData, m3, runtime, run.inside)
         IN  [step |-> Step(m4, "done", Direct(outcome), FALSE),
              calls |-> run.calls, stored |-> run.stored]

----------------------------------------------------------------------------
(* Concurrent invocations                                                  *)

\* Two tracePromise calls may be in flight at once, each with its own record.
\* The AsyncLocalStorage holds one store per asynchronous execution: run()
\* enters a store for the call it wraps, and a continuation resumes in the
\* store that was current where it was created.

ConcurrentRecords == DOMAIN SpanOf

\* a tracePromise invocation that has not been made yet
IdleJob(r) ==
    [pc |-> "idle", outcome |-> "resolve", amb |-> ROOT_CONTEXT,
     rec |-> [FreshRecord EXCEPT !.foo = r], log |-> <<>>, uncaught |-> FALSE,
     callbackStore |-> ROOT_CONTEXT, returnStore |-> ROOT_CONTEXT,
     fast |-> FALSE, result |-> Pending]

\* run() that leaves the store it entered current when it returns
alsRunExitNoRestore(before, inside) == inside

\* storage.run(store, fn) on return: the store that was current before the
\* call is current again
alsRunExit(before, inside) == before

\* continuations that resume in whatever store the last code to run left
asyncResumeShared(carried, current) == current

\* a continuation resumes in the store carried from where it was created
asyncResume(carried, current) == carried

\* the Context Records of the invocations in flight
JobRecords == [r \in ConcurrentRecords |-> jobs[r].rec]

\* the store the callback was started in, read off the job's log (the
\* caller's own when the callback has not been called)
CallbackStore(entries, amb) ==
    LET fn == {i \in DOMAIN entries : entries[i].ev = "fn"}
    IN  IF rt = "storage" /\ fn # {}
        THEN entries[CHOOSE i \in fn : TRUE].active
        ELSE amb

----------------------------------------------------------------------------
(* Actions *)

\* no invocation is under way or under observation
Quiet == inv.pc = "idle"

\* the registrations subscribe(subscribers) makes on sub-channel ev
subscribe(s, ev) ==
    IF ev \in Subscribers[s].events
    THEN Append(chan[ev], Handler(s, ev = "start"))
    ELSE chan[ev]

\* the registrations left on sub-channel ev by unsubscribe(subscribers): the
\* subscriber's own handler is looked up
unsubscribe(s, ev) ==
    IF ev \in Subscribers[s].events
    THEN RemoveFirst(chan[ev], Handler(s, FALSE))
    ELSE chan[ev]

Subscribe(s) ==
    /\ Quiet
    /\ nsub < MaxSubscribeCalls
    /\ chan' = [ev \in Events |-> subscribe(s, ev)]
    /\ subCount' = [subCount EXCEPT ![s] = @ + 1]
    /\ nsub' = nsub + 1
    /\ UNCHANGED <<rt, rec, inv, log, uncaught, console, aux>>

Unsubscribe(s) ==
    /\ Quiet
    /\ subCount[s] > 0
    /\ chan' = [ev \in Events |-> unsubscribe(s, ev)]
    /\ subCount' = [subCount EXCEPT ![s] = @ - 1]
    /\ UNCHANGED <<nsub, rt, rec, inv, log, uncaught, console, aux>>

\* the tracing runtime is replaced (an SDK is registered or removed, a test
\* stubs the accessor)
SetRuntime(x) ==
    /\ Quiet
    /\ x # rt
    /\ rt' = x
    /\ UNCHANGED <<chan, subCount, nsub, rec, inv, log, uncaught, console, aux>>

\* the caller makes a new Context Record
NewRecord(r) ==
    /\ Quiet
    /\ rec[r] # FreshRecord
    /\ rec' = [rec EXCEPT ![r] = FreshRecord]
    /\ UNCHANGED <<chan, subCount, nsub, rt, inv, log, uncaught, console, aux>>

TraceSync(r, outcome, amb) ==
    /\ Quiet
    /\ LET s == traceSync(r, outcome, Machine(<<>>, rec, FALSE, console), rt, amb)
       IN  /\ log' = s.m.log
           /\ rec' = s.m.rec
           /\ uncaught' = s.m.uncaught
           /\ console' = s.m.console
           /\ inv' = [kind |-> "sync", pc |-> s.pc, r |-> r, outcome |-> outcome,
                      amb |-> amb, rec0 |-> rec[r], fast |-> s.fast,
                      result |-> s.result]
    /\ UNCHANGED <<chan, subCount, nsub, rt, aux>>

TracePromise(r, outcome, amb) ==
    /\ Quiet
    /\ LET s == tracePromiseCall(r, outcome, Machine(<<>>, rec, FALSE, console), rt, amb)
       IN  /\ log' = s.m.log
           /\ rec' = s.m.rec
           /\ uncaught' = s.m.uncaught
           /\ console' = s.m.console
           /\ inv' = [kind |-> "promise", pc |-> s.pc, r |-> r, outcome |-> outcome,
                      amb |-> amb, rec0 |-> rec[r], fast |-> s.fast,
                      result |-> s.result]
    /\ UNCHANGED <<chan, subCount, nsub, rt, aux>>

\* the callback's promise settles and tracePromise resumes after its await, in
\* the context its caller was in
CallbackSettles ==
    /\ inv.pc = "await"
    /\ LET s == tracePromiseSettle(inv.r, inv.outcome, inv.fast,
                                   Machine(log, rec, uncaught, console), rt, inv.amb)
       IN  /\ log' = s.m.log
           /\ rec' = s.m.rec
           /\ uncaught' = s.m.uncaught
           /\ console' = s.m.console
           /\ inv' = [inv EXCEPT !.pc = s.pc, !.result = s.result]
    /\ UNCHANGED <<chan, subCount, nsub, rt, aux>>

\* the caller's continuation sees the promise returned by tracePromise settled
CallerObserves ==
    /\ inv.pc = "settled"
    /\ log' = Append(log, Entry("observe", "caller", FALSE, NoData,
                                Observed(rt, inv.amb)))
    /\ inv' = [inv EXCEPT !.pc = "done"]
    /\ UNCHANGED <<chan, subCount, nsub, rt, rec, uncaught, console, aux>>

\* the invocation is over: what was observed of it (the log, the console
\* lines, the uncaught-exception report) is dropped before the next call
InvocationOver ==
    /\ inv.pc = "done"
    /\ inv' = Idle
    /\ log' = <<>>
    /\ uncaught' = FALSE
    /\ console' = <<>>
    /\ UNCHANGED <<chan, subCount, nsub, rt, rec, aux>>

BindStore(x) ==
    /\ Quiet
    /\ isAsyncLocalStorage(x) => Len(storeHist[x]) < MaxStoreCalls
    /\ LET b == bindStore(x, boundStores, stores)
       IN  /\ boundStores' = b.boundStores
           /\ stores' = b.stores
           /\ storeCall' = [op |-> "bindStore", arg |-> x, error |-> b.error]
           /\ storeHist' = IF b.error = "none" /\ isAsyncLocalStorage(x)
                           THEN [storeHist EXCEPT ![x] = Append(@, "bind")]
                           ELSE storeHist
    /\ UNCHANGED <<chan, subCount, nsub, rt, rec, inv, log, uncaught, console,
                   built, debugEnabled, probe, verdict, others>>

UnbindStore(x) ==
    /\ Quiet
    /\ Len(storeHist[x]) < MaxStoreCalls
    /\ LET b == unbindStore(x, boundStores, stores)
       IN  /\ boundStores' = b.boundStores
           /\ stores' = b.stores
           /\ storeCall' = [op |-> "unbindStore", arg |-> x, error |-> b.error]
           /\ storeHist' = IF b.error = "none"
                           THEN [storeHist EXCEPT ![x] = Append(@, "unbind")]
                           ELSE storeHist
    /\ UNCHANGED <<chan, subCount, nsub, rt, rec, inv, log, uncaught, console,
                   built, debugEnabled, probe, verdict, others>>

\* the values handed to isSpan
Shapes ==
    { Shape(o, has, fn, acc, t, sp) :
        o \in BOOLEAN, has \in BOOLEAN, fn \in BOOLEAN,
        acc \in {"object", "null", "throws"},
        t \in {"", "trace-A", INVALID_TRACEID},
        sp \in {"", "span-A", INVALID_SPANID} }

\* isSpan(value), as the tracing channel's utils module has it
IsSpan(v) ==
    /\ probe' = v
    /\ verdict' = [impl |-> "utils", out |-> isSpanOutcome(v)]
    /\ UNCHANGED <<chan, subCount, nsub, rt, rec, inv, log, uncaught, console,
                   boundStores, stores, storeHist, storeCall, built, debugEnabled, others>>

\* isSpan(value) of src/utils.ts
IsSpanLegacy(v) ==
    /\ probe' = v
    /\ verdict' = [impl |-> "src/utils.ts", out |-> isSpanLegacy(v)]
    /\ UNCHANGED <<chan, subCount, nsub, rt, rec, inv, log, uncaught, console,
                   boundStores, stores, storeHist, storeCall, built, debugEnabled, others>>

\* a context captured outside the invocation about to be made
EarlierContext == Ctx("earlier", "earlierSpan")

\* the caller passes a Context Record that already carries a captured-context
\* field (a record kept from an earlier traced operation, or one it filled in)
SupplyContext(r) ==
    /\ Quiet
    /\ rec[r].otelSpanContext = NoCtx
    /\ rec' = [rec EXCEPT ![r].otelSpanContext = EarlierContext]
    /\ UNCHANGED <<chan, subCount, nsub, rt, inv, log, uncaught, console, aux>>

\* tracingChannel(name, transformStart)
TransformFactory(ret) ==
    /\ Quiet
    /\ xform.ret = "none"
    /\ LET c == transformChannel(ret, rt, Machine(log, rec, uncaught, console))
       IN  /\ xform' = [NoTransform EXCEPT !.ret = ret, !.runtime = rt, !.bound = c.bound]
           /\ console' = c.m.console
    /\ UNCHANGED <<chan, subCount, nsub, rt, rec, inv, log, uncaught,
                   boundStores, stores, storeHist, storeCall, built, debugEnabled,
                   probe, verdict, debugHist, jobs, als>>

\* channel.traceSync(callback, context) on the channel the factory returned
TraceSyncNative(r, outcome, amb) ==
    /\ Quiet
    /\ xform.ret # "none"
    /\ LET n == traceSyncNative(xform, r, outcome, Machine(<<>>, rec, FALSE, console),
                                rt, amb)
           s == n.step
       IN  /\ log' = s.m.log
           /\ rec' = s.m.rec
           /\ uncaught' = s.m.uncaught
           /\ console' = s.m.console
           /\ xform' = [xform EXCEPT !.calls = n.calls, !.stored = n.stored]
           /\ inv' = [kind |-> "sync", pc |-> s.pc, r |-> r, outcome |-> outcome,
                      amb |-> amb, rec0 |-> rec[r], fast |-> s.fast,
                      result |-> s.result]
    /\ UNCHANGED <<chan, subCount, nsub, rt,
                   boundStores, stores, storeHist, storeCall, built, debugEnabled,
                   probe, verdict, debugHist, jobs, als>>

\* the tracing subscriber subscribes, before any of the concurrent calls
SubscribeTracer ==
    /\ chan["start"] = <<>>
    /\ \A r \in ConcurrentRecords : jobs[r].pc = "idle"
    /\ chan' = [ev \in Events |-> Append(chan[ev], Handler("tracer", ev = "start"))]
    /\ UNCHANGED <<subCount, nsub, rt, rec, inv, log, uncaught, console,
                   boundStores, stores, storeHist, storeCall, built, debugEnabled,
                   probe, verdict, debugHist, xform, jobs, als>>

\* tracePromise(callback, record r) is called by code running in context amb,
\* while other invocations may be suspended
CallAsync(r, outcome, amb) ==
    /\ jobs[r].pc = "idle"
    /\ LET s == tracePromiseCall(r, outcome,
                                 Machine(<<>>, JobRecords, FALSE, <<>>), rt, amb)
           inside == CallbackStore(s.m.log, amb)
           after == alsRunExit(amb, inside)
       IN  /\ jobs' = [jobs EXCEPT ![r] =
                         [pc |-> s.pc, outcome |-> outcome, amb |-> amb,
                          rec |-> s.m.rec[r], log |-> s.m.log,
                          uncaught |-> s.m.uncaught,
                          callbackStore |-> inside, returnStore |-> after,
                          fast |-> s.fast, result |-> s.result]]
           /\ als' = after
    /\ UNCHANGED <<chan, subCount, nsub, rt, rec, inv, log, uncaught, console,
                   boundStores, stores, storeHist, storeCall, built, debugEnabled,
                   probe, verdict, debugHist, xform>>

\* the callback of invocation r continues after a suspension point of its own
CallbackResumes(r) ==
    /\ jobs[r].pc = "await"
    /\ LET store == asyncResume(jobs[r].callbackStore, als)
       IN  /\ jobs' = [jobs EXCEPT
                         ![r].pc = "resumed",
                         ![r].log = Append(@, Entry("fn", "callback", FALSE, NoData,
                                                    Observed(rt, store)))]
           /\ als' = store
    /\ UNCHANGED <<chan, subCount, nsub, rt, rec, inv, log, uncaught, console,
                   boundStores, stores, storeHist, storeCall, built, debugEnabled,
                   probe, verdict, debugHist, xform>>

\* the callback's promise of invocation r settles and its tracePromise
\* resumes after the await
SettleAsync(r) ==
    /\ jobs[r].pc \in {"await", "resumed"}
    /\ LET store == asyncResume(jobs[r].returnStore, als)
           s == tracePromiseSettle(r, jobs[r].outcome, jobs[r].fast,
                                   Machine(jobs[r].log, JobRecords, jobs[r].uncaught,
                                           <<>>),
                                   rt, store)
       IN  /\ jobs' = [jobs EXCEPT ![r].pc = s.pc, ![r].result = s.result,
                                   ![r].log = s.m.log, ![r].rec = s.m.rec[r],
                                   ![r].uncaught = s.m.uncaught]
           /\ als' = store
    /\ UNCHANGED <<chan, subCount, nsub, rt, rec, inv, log, uncaught, console,
                   boundStores, stores, storeHist, storeCall, built, debugEnabled,
                   probe, verdict, debugHist, xform>>

\* the caller's continuation of invocation r sees the returned promise settled
ObserveAsync(r) ==
    /\ jobs[r].pc = "settled"
    /\ LET store == asyncResume(jobs[r].returnStore, als)
       IN  /\ jobs' = [jobs EXCEPT
                         ![r].pc = "done",
                         ![r].log = Append(@, Entry("observe", "caller", FALSE, NoData,
                                                    Observed(rt, store)))]
           /\ als' = store
    /\ UNCHANGED <<chan, subCount, nsub, rt, rec, inv, log, uncaught, console,
                   boundStores, stores, storeHist, storeCall, built, debugEnabled,
                   probe, verdict, debugHist, xform>>

\* the bound on the setDebugFlag / debugLog calls made
MaxDebugCalls == 4

\* one call on the utils module: a setDebugFlag with its argument, or a
\* debugLog with the number of console lines it wrote
DebugCall(op, flag, wrote) == [op |-> op, flag |-> flag, wrote |-> wrote]

\* utils.setDebugFlag(debug)
SetDebugFlag(b) ==
    /\ Quiet
    /\ Len(debugHist) < MaxDebugCalls
    /\ debugEnabled' = setDebugFlag(b)
    /\ debugHist' = Append(debugHist, DebugCall("setDebugFlag", b, 0))
    /\ UNCHANGED <<chan, subCount, nsub, rt, rec, inv, log, uncaught, console,
                   boundStores, stores, storeHist, storeCall, built, probe, verdict,
                   xform, jobs, als>>

\* utils.debugLog('message')
DebugLog ==
    /\ Quiet
    /\ Len(debugHist) < MaxDebugCalls
    /\ LET m == debugLog(Machine(log, rec, uncaught, console), "message")
       IN  /\ console' = m.console
           /\ debugHist' = Append(debugHist,
                                  DebugCall("debugLog", debugEnabled,
                                            Len(m.console) - Len(console)))
    /\ UNCHANGED <<chan, subCount, nsub, rt, rec, inv, log, uncaught,
                   boundStores, stores, storeHist, storeCall, built, debugEnabled,
                   probe, verdict, xform, jobs, als>>

\* TracingChannelFixed.subscribe(subscribers): every handler as it was passed
SubscribeFixed(s) ==
    /\ Quiet
    /\ nsub < MaxSubscribeCalls
    /\ chan' = [ev \in Events |->
                   IF ev \in Subscribers[s].events
                   THEN Append(chan[ev], Handler(s, FALSE))
                   ELSE chan[ev]]
    /\ subCount' = [subCount EXCEPT ![s] = @ + 1]
    /\ nsub' = nsub + 1
    /\ UNCHANGED <<rt, rec, inv, log, uncaught, console, aux>>

TracePromiseFixed(r, outcome, amb) ==
    /\ Quiet
    /\ LET s == tracePromiseFixedCall(r, outcome, Machine(<<>>, rec, FALSE, console),
                                      rt, amb)
       IN  /\ log' = s.m.log
           /\ rec' = s.m.rec
           /\ uncaught' = s.m.uncaught
           /\ console' = s.m.console
           /\ inv' = [kind |-> "promise", pc |-> s.pc, r |-> r, outcome |-> outcome,
                      amb |-> amb, rec0 |-> rec[r], fast |-> s.fast,
                      result |-> s.result]
    /\ UNCHANGED <<chan, subCount, nsub, rt, aux>>

SyncOutcomes == {"return", "throw"}

PromiseOutcomes == {"resolve", "reject", "throwSync"}

Init ==
    /\ chan = [ev \in Events |-> <<>>]
    /\ subCount = [s \in SubscriberIds |-> 0]
    /\ nsub = 0
    /\ rt \in RuntimeStates
    /\ rec = [r \in RecordIds |-> FreshRecord]
    /\ inv = Idle
    /\ log = <<>>
    /\ uncaught = FALSE
    /\ debugEnabled = FALSE
    /\ LET channel == tracingChannel(rt)
       IN  /\ built = [threw |-> channel.threw, returned |-> channel.returned,
                       storage |-> channel.storage]
           /\ boundStores = channel.boundStores
           /\ stores = channel.stores
           /\ console = channel.console
           /\ storeHist = [x \in Storages |->
                              IF channel.boundStores[x] > 0 THEN <<"bind">> ELSE <<>>]
    /\ storeCall = [op |-> "none", arg |-> "otelStorage", error |-> "none"]
    /\ probe = StartResult["undefined"]
    /\ verdict = [impl |-> "none", out |-> "none"]
    /\ debugHist = <<>>
    /\ xform = NoTransform
    /\ jobs = [r \in ConcurrentRecords |-> IdleJob(r)]
    /\ als = ROOT_CONTEXT

Next ==
    \/ \E s \in SubscriberIds : Subscribe(s)
    \/ \E s \in SubscriberIds : Unsubscribe(s)
    \/ \E x \in RuntimeStates : SetRuntime(x)
    \/ \E r \in RecordIds : NewRecord(r)
    \/ \E r \in RecordIds, o \in SyncOutcomes, a \in AmbientContexts : TraceSync(r, o, a)
    \/ \E r \in RecordIds, o \in PromiseOutcomes, a \in AmbientContexts : TracePromise(r, o, a)
    \/ CallbackSettles
    \/ CallerObserves
    \/ InvocationOver

Spec == Init /\ [][Next]_vars

\* the channel's lifetime under a tracing runtime that stays as it was at
\* construction
NextFixedRuntime ==
    \/ \E s \in SubscriberIds : Subscribe(s)
    \/ \E s \in SubscriberIds : Unsubscribe(s)
    \/ \E r \in RecordIds : NewRecord(r)
    \/ \E r \in RecordIds, o \in SyncOutcomes, a \in AmbientContexts : TraceSync(r, o, a)
    \/ \E r \in RecordIds, o \in PromiseOutcomes, a \in AmbientContexts : TracePromise(r, o, a)
    \/ CallbackSettles
    \/ CallerObserves
    \/ InvocationOver

SpecFixedRuntime == Init /\ [][NextFixedRuntime]_vars

\* The same, with the scheduling of a JavaScript runtime: once the callback's
\* promise has settled the continuation of tracePromise is run, and once the
\* returned promise has settled the caller's continuation is run.
SpecLive ==
    Init /\ [][NextFixedRuntime]_vars /\ WF_vars(CallbackSettles) /\ WF_vars(CallerObserves)

\* a TracingChannelFixed and the debug flag
NextFixed ==
    \/ \E b \in BOOLEAN : SetDebugFlag(b)
    \/ \E s \in SubscriberIds : SubscribeFixed(s)
    \/ \E r \in RecordIds : NewRecord(r)
    \/ \E r \in RecordIds, o \in PromiseOutcomes, a \in AmbientContexts :
          TracePromiseFixed(r, o, a)
    \/ CallbackSettles
    \/ CallerObserves
    \/ InvocationOver

SpecFixed == Init /\ [][NextFixed]_vars

\* the channel's lifetime with callers that may pass a record already
\* carrying a captured-context field
NextSuppliedContext ==
    \/ Next
    \/ \E r \in RecordIds : SupplyContext(r)

SpecSuppliedContext == Init /\ [][NextSuppliedContext]_vars

\* a channel built by the transform-based factory
NextTransform ==
    \/ \E t \in TransformReturns : TransformFactory(t)
    \/ \E x \in RuntimeStates : SetRuntime(x)
    \/ \E s \in SubscriberIds : SubscribeFixed(s)
    \/ \E r \in RecordIds : NewRecord(r)
    \/ \E r \in RecordIds, o \in SyncOutcomes, a \in AmbientContexts :
          TraceSyncNative(r, o, a)
    \/ InvocationOver

SpecTransform == Init /\ [][NextTransform]_vars

\* tracePromise invocations in flight at the same time
NextAsync ==
    \/ SubscribeTracer
    \/ \E r \in ConcurrentRecords, o \in PromiseOutcomes, a \in AmbientContexts :
          CallAsync(r, o, a)
    \/ \E r \in ConcurrentRecords : CallbackResumes(r)
    \/ \E r \in ConcurrentRecords : SettleAsync(r)
    \/ \E r \in ConcurrentRecords : ObserveAsync(r)

SpecAsync == Init /\ [][NextAsync]_vars

\* setDebugFlag / debugLog calls on the utils module
NextDebug ==
    \/ \E b \in BOOLEAN : SetDebugFlag(b)
    \/ DebugLog

SpecDebug == Init /\ [][NextDebug]_vars

\* bindStore / unbindStore calls on a constructed channel
NextStore ==
    \/ \E x \in StoreArgs : BindStore(x)
    \/ \E x \in Storages : UnbindStore(x)

SpecStore == Init /\ [][NextStore]_vars

\* isSpan applied to every shape of value
NextIsSpan ==
    \/ \E v \in Shapes : IsSpan(v)
    \/ \E v \in Shapes : IsSpanLegacy(v)

SpecIsSpan == Init /\ [][NextIsSpan]_vars

----------------------------------------------------------------------------
(* Properties *)

\* who was called, in order
Called == [i \in DOMAIN log |-> <<log[i].ev, log[i].sub>>]

\* the handlers registered on a sub-channel, in registration order
Registered(ev) == [i \in DOMAIN chan[ev] |-> <<ev, chan[ev][i].sub>>]

CallbackRan == <<"fn", "callback">>

CallerSaw == <<"observe", "caller">>

At(ev) == {i \in DOMAIN log : log[i].ev = ev}

\* the registered start handlers that return a recognised span
SpanStarts == {i \in DOMAIN chan["start"] : isSpan(Subscribers[chan["start"][i].sub].ret)}

\* the span returned by the last of them
LastSpan ==
    LET last == CHOOSE i \in SpanStarts : \A j \in SpanStarts : j <= i
    IN  Subscribers[chan["start"][last].sub].ret

Finished == inv.pc \in {"settled", "done"}

\* C1: in a tracePromise invocation with a start handler returning a recognised
\* span and the runtime's storage reachable, the record holds a captured context
\* after start is published (the ambient context carrying that span), and the
\* callback body runs with exactly that context active.
C1_CallbackRunsInCapturedContext ==
    (inv.kind = "promise" /\ rt = "storage" /\ SpanStarts # {}) =>
        /\ rec[inv.r].otelSpanContext # NoCtx
        /\ rec[inv.r].otelSpanContext = setSpan(inv.amb, LastSpan)
        /\ At("fn") # {}
        /\ \A i \in At("fn") :
              /\ log[i].active = rec[inv.r].otelSpanContext
              /\ log[i].active.span = LastSpan

C1_Witness ==
    /\ inv.kind = "promise" /\ rt = "storage" /\ inv.pc = "await"
    /\ inv.amb = Ctx("request", "outerSpan")
    /\ SpanStarts # {}
    /\ \E i \in At("fn") : log[i].active = Ctx("request", "spanA")

\* C2: in a tracePromise invocation where a start handler captured a context,
\* the handlers of every event published after start (asyncStart, asyncEnd,
\* end, error) are invoked with that captured context active.
C2_LaterEventsInCapturedContext ==
    (inv.kind = "promise" /\ rt = "storage" /\ SpanStarts # {}) =>
        \A i \in DOMAIN log :
            log[i].ev \in {"asyncStart", "asyncEnd", "end", "error"} =>
                log[i].active = rec[inv.r].otelSpanContext

\* C3: for a successful tracePromise with one handler on each of start,
\* asyncStart, asyncEnd and end, the calls are exactly start, callback body,
\* end, asyncStart, asyncEnd.
C3_NativeOrder ==
    ( /\ inv.kind = "promise" /\ Finished /\ inv.outcome = "resolve"
      /\ \A ev \in {"start", "asyncStart", "asyncEnd", "end"} : Len(chan[ev]) = 1 ) =>
        SelectSeq(Called, LAMBDA c : c # CallerSaw) =
            Registered("start") \o <<CallbackRan>> \o Registered("end")
                \o Registered("asyncStart") \o Registered("asyncEnd")

C5_SameOutcomeAsDirectCall ==
    Finished => inv.result = Direct(inv.outcome)

\* C6: a traceSync off the fast path whose callback throws calls the start
\* handlers, the callback, the error handlers and the end handlers, in that
\* order and each once, and re-raises the error the callback threw.
C6_SyncThrowOrder ==
    (inv.kind = "sync" /\ inv.outcome = "throw" /\ ~inv.fast) =>
        /\ Called = Registered("start") \o <<CallbackRan>>
                        \o Registered("error") \o Registered("end")
        /\ inv.result = Result(FALSE, "error-x")

C6_Witness ==
    /\ inv.kind = "sync" /\ inv.outcome = "throw" /\ inv.pc = "done"
    /\ hasSubscribers("start") /\ hasSubscribers("error") /\ hasSubscribers("end")
    /\ Len(log) = Len(chan["start"]) + Len(chan["error"]) + Len(chan["end"]) + 1

\* C7: when the callback of a tracePromise with an error subscriber rejects or
\* throws, every error handler receives a copy holding the record's fields
\* plus error = the callback's rejection value, and the returned promise
\* rejects with that same value.
C7_ErrorRecord ==
    ( /\ inv.kind = "promise" /\ Finished /\ hasSubscribers("error")
      /\ inv.outcome \in {"reject", "throwSync"} /\ At("fn") # {} ) =>
        /\ SelectSeq(Called, LAMBDA c : c[1] = "error") = Registered("error")
        /\ \A i \in At("error") :
              /\ ~log[i].orig
              /\ log[i].data.foo = rec[inv.r].foo
              /\ log[i].data.otelSpanContext = rec[inv.r].otelSpanContext
              /\ log[i].data.error = Direct(inv.outcome).val
        /\ inv.result = Result(FALSE, Direct(inv.outcome).val)

C7_Witness ==
    /\ inv.kind = "promise" /\ inv.pc = "done" /\ inv.outcome = "reject"
    /\ At("fn") # {}
    /\ \E i \in At("error") :
          /\ log[i].data.error = "error-x"
          /\ log[i].data.otelSpanContext # NoCtx
          /\ log[i].data.foo = "bar"

\* C8: when a tracePromise fails, the error handlers and then the end handlers
\* are called, each once, and all of them before the caller sees the rejection.
C8_ErrorThenEndBeforeRejection ==
    (inv.kind = "promise" /\ Finished /\ ~inv.result.ok) =>
        SelectSeq(Called, LAMBDA c : c[1] \in {"error", "end", "observe"}) =
            Registered("error") \o Registered("end")
                \o (IF inv.pc = "done" THEN <<CallerSaw>> ELSE <<>>)

C8_Witness ==
    /\ inv.kind = "promise" /\ inv.pc = "done" /\ ~inv.result.ok
    /\ inv.outcome = "reject"
    /\ hasSubscribers("error") /\ hasSubscribers("end")
    /\ At("error") # {} /\ At("end") # {} /\ At("observe") # {}

C10_UnsubscribeInverse ==
    \A s \in SubscriberIds :
        subCount[s] = 0 => \A i \in DOMAIN log : log[i].sub # s

\* C11: when start handlers are registered and every one of them returns a
\* value that is not a recognised span, publishing start leaves the record
\* without a captured context, no handler failure is reported, the callback
\* runs, and the invocation finishes with the callback's own outcome.
C11_NonSpanStartIgnored ==
    ( /\ inv.kind # "none" /\ hasSubscribers("start") /\ SpanStarts = {}
      /\ inv.rec0.otelSpanContext = NoCtx ) =>
        /\ rec[inv.r].otelSpanContext = NoCtx
        /\ ~uncaught
        /\ Len(SelectSeq(Called, LAMBDA c : c = CallbackRan)) = 1
        /\ Finished => inv.result = Direct(inv.outcome)

C11_Witness ==
    /\ inv.kind = "promise" /\ inv.pc = "done" /\ inv.outcome = "resolve"
    /\ SpanStarts = {}
    /\ \E i \in At("start") : Subscribers[log[i].sub].ret = "plainObject"
    /\ rec[inv.r].otelSpanContext = NoCtx
    /\ inv.result = Result(TRUE, "value-42")

\* C15: in every traceSync / tracePromise invocation the caller's record never
\* gains an error field: error handlers receive a copy that carries the error,
\* end handlers receive the caller's record itself, still without one.
C15_ErrorOnCopyOnly ==
    (inv.kind # "none") =>
        /\ rec[inv.r].error = "undefined"
        /\ \A i \in At("error") :
              /\ ~log[i].orig
              /\ log[i].data.error = inv.result.val
              /\ log[i].data.foo = rec[inv.r].foo
        /\ \A i \in At("end") :
              /\ log[i].orig
              /\ log[i].data.error = "undefined"

C15_Witness ==
    /\ inv.kind = "sync" /\ inv.pc = "done" /\ inv.outcome = "throw"
    /\ At("fn") # {}
    /\ \E i \in At("error") : log[i].data.error = "error-x" /\ ~log[i].orig
    /\ \E i \in At("end") : log[i].orig /\ log[i].data.error = "undefined"
    /\ rec[inv.r].error = "undefined"

\* what set semantics leaves of the calls made with one storage: an entry
\* exactly when the last of them was a bindStore
EntriesAfter(calls) ==
    IF calls # <<>> /\ calls[Len(calls)] = "bind" THEN 1 ELSE 0

\* C12: bindStore / unbindStore have set semantics: whatever calls were made
\* with a storage, the Bound Storage Set and each of the five sub-channels
\* hold one entry for it when the last call was a bindStore and none
\* otherwise, so binding twice equals binding once, unbinding twice equals
\* unbinding once, and one unbindStore undoes any number of bindStore calls.
C12_StoreSetSemantics ==
    \A x \in Storages :
        /\ boundStores[x] = EntriesAfter(storeHist[x])
        /\ \A ev \in Events : stores[ev][x] = EntriesAfter(storeHist[x])

C12_Witness ==
    \E x \in Storages :
        /\ storeHist[x] = <<"bind", "bind", "unbind">>
        /\ boundStores[x] = 0
        /\ \A ev \in Events : stores[ev][x] = 0

\* C13: a bindStore call with a value that is not an AsyncLocalStorage fails
\* with a TypeError and changes neither the Bound Storage Set nor the stores
\* bound on any sub-channel.
C13_BindStoreRejectsNonStorage ==
    [][ (storeCall'.op = "bindStore" /\ ~isAsyncLocalStorage(storeCall'.arg)) =>
            /\ storeCall'.error = "TypeError"
            /\ UNCHANGED <<boundStores, stores>> ]_vars

C13_Witness ==
    /\ storeCall = [op |-> "bindStore", arg |-> "notStorage", error |-> "TypeError"]
    /\ boundStores["userStorage"] = 1
    /\ boundStores["notStorage"] = 0

\* C14: an unbindStore call with a storage that is not bound raises no error
\* and changes neither the Bound Storage Set nor the stores bound on any
\* sub-channel.
C14_UnbindUnboundIsNoOp ==
    [][ (storeCall'.op = "unbindStore" /\ boundStores[storeCall'.arg] = 0) =>
            /\ storeCall'.error = "none"
            /\ UNCHANGED <<boundStores, stores>> ]_vars

C14_Witness ==
    /\ storeCall = [op |-> "unbindStore", arg |-> "userStorage", error |-> "none"]
    /\ storeHist["userStorage"] = <<"unbind">>
    /\ boundStores["userStorage"] = 0

\* the events a finished invocation publishes when its callback ends that way
ExpectedEvents(kind, outcome) ==
    IF kind = "sync"
    THEN IF outcome = "return" THEN {"start", "end"} ELSE {"start", "error", "end"}
    ELSE IF outcome = "resolve"
    THEN {"start", "asyncStart", "asyncEnd", "end"}
    ELSE {"start", "asyncStart", "error", "end"}

\* C16: whatever the tracing runtime is when the channel is constructed (the
\* accessor throws, the manager is null, the manager has no storage, the
\* manager has one), construction does not throw and returns the channel, and
\* on that channel every traceSync / tracePromise runs its callback once and
\* calls the registered handlers of each event of the invocation.
C16_ConstructionNeverThrows ==
    /\ ~built.threw
    /\ built.returned = "channel"
    /\ built.storage = (boundStores["otelStorage"] = 1)
    /\ (inv.kind # "none") =>
          /\ Len(SelectSeq(Called, LAMBDA c : c = CallbackRan)) = 1
          /\ (Finished /\ ~inv.fast) =>
                \A ev \in ExpectedEvents(inv.kind, inv.outcome) :
                    SelectSeq(Called, LAMBDA c : c[1] = ev) = Registered(ev)

C16_Witness ==
    /\ rt \in {"null", "throws"} /\ ~built.threw /\ ~built.storage
    /\ inv.kind = "promise" /\ inv.pc = "done" /\ inv.outcome = "resolve"
    /\ At("start") # {} /\ At("fn") # {} /\ At("asyncEnd") # {} /\ At("end") # {}
    /\ inv.result = Result(TRUE, "value-42")

\* C17: the storage tracePromise runs the callback in is the one detected when
\* the channel was constructed: with a captured context on the record, the
\* callback runs inside that context exactly when construction found and bound
\* the runtime's storage, whatever the runtime has become since.
C17_DetectionCached ==
    (inv.kind = "promise" /\ rec[inv.r].otelSpanContext # NoCtx) =>
        \A i \in At("fn") :
            (log[i].active = rec[inv.r].otelSpanContext) <=> built.storage

\* the value is a non-null object with a callable spanContext member
HasAccessor(v) == v.isObject /\ v.hasSpanContext /\ v.isFunction

\* ... which yields an object whose trace and span identifiers are non-empty
\* and are not the invalid sentinels
ValidSpan(v) ==
    /\ HasAccessor(v)
    /\ v.accessor = "object"
    /\ v.traceId \notin {"", INVALID_TRACEID}
    /\ v.spanId \notin {"", INVALID_SPANID}

\* C18: isSpan answers true exactly for the valid spans, and false for every
\* value that is not a non-null object with a callable spanContext member.
C18_IsSpanExact ==
    (verdict.impl # "none") =>
        /\ (verdict.out = "true") <=> ValidSpan(probe)
        /\ ~HasAccessor(probe) => verdict.out = "false"

\* C19: isSpan never throws: it answers true or false for every value, and
\* false for a value whose spanContext member throws when called.
C19_IsSpanNeverThrows ==
    (verdict.impl # "none") =>
        /\ verdict.out \in {"true", "false"}
        /\ (HasAccessor(probe) /\ probe.accessor = "throws") => verdict.out = "false"

\* C20: while the debug flag is off, nothing is written to the console: not by
\* construction, subscribe, the start publication, traceSync or tracePromise,
\* the branch that runs the callback in the captured context included.
C20_SilentWhenDebugOff ==
    ~debugEnabled => console = <<>>

\* the flag after the calls made so far: the argument of the last
\* setDebugFlag, off when there was none
RECURSIVE LastFlag(_)
LastFlag(calls) ==
    IF calls = <<>> THEN FALSE
    ELSE IF calls[Len(calls)].op = "setDebugFlag" THEN calls[Len(calls)].flag
    ELSE LastFlag(SubSeq(calls, 1, Len(calls) - 1))

\* C21: after any sequence of setDebugFlag calls the flag is the argument of
\* the most recent one (off when there was none, unchanged by a repeated
\* value); a debugLog call writes exactly one line, the prefix followed by
\* its argument, when that flag is on and writes nothing when it is off.
C21_DebugFlagGatesLog ==
    /\ debugEnabled = LastFlag(debugHist)
    /\ \A i \in DOMAIN debugHist :
          debugHist[i].op = "debugLog" =>
              debugHist[i].wrote =
                  (IF LastFlag(SubSeq(debugHist, 1, i - 1)) THEN 1 ELSE 0)
    /\ Len(console) = Len(SelectSeq(debugHist, LAMBDA c : c.wrote = 1))
    /\ \A i \in DOMAIN console : console[i] = <<LogPrefix, "message">>

C21_Witness ==
    /\ Len(debugHist) = 4
    /\ debugHist[1] = DebugCall("debugLog", FALSE, 0)
    /\ debugHist[2] = DebugCall("setDebugFlag", TRUE, 0)
    /\ debugHist[3] = DebugCall("setDebugFlag", TRUE, 0)
    /\ debugHist[4] = DebugCall("debugLog", TRUE, 1)
    /\ console = <<(<<LogPrefix, "message">>)>>

\* C23: traceSync makes no context switch: when a start handler returns a
\* recognised span and the active context can be read, the record carries the
\* captured context after traceSync has returned, the callback ran in the
\* context that was ambient at the call, and the outcome is the callback's.
C23_SyncNoContextSwitch ==
    (inv.kind = "sync" /\ SpanStarts # {} /\ ~ActiveThrows(rt)) =>
        /\ inv.pc = "done"
        /\ rec[inv.r].otelSpanContext = setSpan(active(rt, inv.amb), LastSpan)
        /\ rec[inv.r].otelSpanContext # NoCtx
        /\ Len(SelectSeq(Called, LAMBDA c : c = CallbackRan)) = 1
        /\ \A i \in At("fn") : log[i].active = active(rt, inv.amb)
        /\ inv.result = Direct(inv.outcome)

C23_Witness ==
    /\ inv.kind = "sync" /\ inv.pc = "done" /\ rt = "storage"
    /\ inv.outcome = "return" /\ inv.result = Result(TRUE, "value-42")
    /\ inv.amb = Ctx("request", "outerSpan")
    /\ rec[inv.r].otelSpanContext = Ctx("request", "spanA")
    /\ \E i \in At("fn") : log[i].active = Ctx("request", "outerSpan")

\* C24: handlers are called only for events they are registered on; the
\* handlers of start, asyncStart, asyncEnd and end are handed the caller's
\* record itself, with the fields earlier handlers set; and a successful
\* traceSync calls the start handlers, the callback and the end handlers and
\* nothing else, so with handlers on end alone just that handler, once.
C24_EventsOnlyToSubscribers ==
    (inv.kind # "none") =>
        /\ \A i \in DOMAIN log :
              log[i].ev \in Events =>
                  \E j \in DOMAIN chan[log[i].ev] : chan[log[i].ev][j].sub = log[i].sub
        /\ \A i \in DOMAIN log :
              log[i].ev \in {"start", "asyncStart", "asyncEnd", "end"} =>
                  /\ log[i].orig
                  /\ log[i].data.foo = rec[inv.r].foo
                  /\ log[i].ev # "start" => log[i].data = rec[inv.r]
        /\ (inv.kind = "sync" /\ inv.outcome = "return" /\ ~inv.fast) =>
              Called = Registered("start") \o <<CallbackRan>> \o Registered("end")

C24_Witness ==
    /\ inv.kind = "sync" /\ inv.pc = "done" /\ inv.outcome = "return"
    /\ ~hasSubscribers("start") /\ Len(chan["end"]) = 1
    /\ hasSubscribers("asyncEnd") /\ hasSubscribers("error")
    /\ Called = <<CallbackRan, <<"end", "s4">> >>
    /\ log[2].orig /\ log[2].data = rec[inv.r]

C26_BoundOnAllOrNone ==
    \A x \in StoreArgs :
        /\ (boundStores[x] > 0) <=> (\A ev \in Events : stores[ev][x] > 0)
        /\ (boundStores[x] = 0) <=> (\A ev \in Events : stores[ev][x] = 0)

C26_Witness ==
    /\ storeCall = [op |-> "bindStore", arg |-> "notStorage", error |-> "TypeError"]
    /\ storeHist["otelStorage"] = <<"bind", "unbind">>
    /\ storeHist["userStorage"] = <<"unbind", "bind">>
    /\ boundStores["userStorage"] = 1 /\ boundStores["otelStorage"] = 0
    /\ \A ev \in Events : stores[ev]["userStorage"] = 1 /\ stores[ev]["otelStorage"] = 0

\* C27: in one invocation the handlers of each event are called at most once,
\* and error handlers are called only when the callback ran and threw or
\* rejected.
C27_ErrorOnlyOnCallbackFailure ==
    (inv.kind # "none") =>
        /\ \A ev \in Events :
              Len(SelectSeq(Called, LAMBDA c : c[1] = ev)) <= Len(chan[ev])
        /\ At("error") # {} =>
              /\ At("fn") # {}
              /\ inv.outcome \in {"throw", "reject", "throwSync"}

\* C28: a tracePromise whose own start handlers return no recognised span (or
\* that has none) runs its callback in the ambient context, whatever
\* captured-context field the record carried when the call was made.
C28_CapturedContextOfThisInvocationOnly ==
    (inv.kind = "promise" /\ rt = "storage" /\ SpanStarts = {}) =>
        /\ Len(SelectSeq(Called, LAMBDA c : c = CallbackRan)) = 1
        /\ \A i \in At("fn") : log[i].active = inv.amb

\* C22: on a channel built by the transform-based factory while storage was
\* available, each traced operation calls the transform once; a recognised
\* span is put on the record's span field and the context stored for the
\* operation is the ambient context carrying that span; any other value
\* leaves the span field unset and stores the ambient context unchanged. The
\* callback runs with the stored context active.
C22_TransformStoresSpanContext ==
    (inv.kind = "sync" /\ xform.bound /\ rt = "storage") =>
        /\ xform.calls = 1
        /\ IF isSpan(xform.ret)
           THEN /\ rec[inv.r].span = xform.ret
                /\ xform.stored = setSpan(inv.amb, xform.ret)
           ELSE /\ rec[inv.r].span = "undefined"
                /\ xform.stored = inv.amb
        /\ \A i \in At("fn") : log[i].active = xform.stored

C22_Witness ==
    /\ inv.kind = "sync" /\ inv.pc = "done" /\ xform.bound /\ rt = "storage"
    /\ xform.ret = "spanA" /\ rec[inv.r].span = "spanA"
    /\ inv.amb = Ctx("request", "outerSpan")
    /\ xform.stored = Ctx("request", "spanA")
    /\ \E i \in At("end") : log[i].data.span = "spanA"

\* the calls of invocation r's log that are of event ev
JobAt(r, ev) == {i \in DOMAIN jobs[r].log : jobs[r].log[i].ev = ev}

\* C29: with the runtime's storage available and a start handler returning
\* one span per record, however two tracePromise invocations interleave, each
\* callback, when it starts and when it resumes, has the context captured for
\* its own invocation active, and every handler call of an invocation is
\* handed that invocation's record.
C29_ConcurrentInvocationsIsolated ==
    (rt = "storage" /\ hasSubscribers("start")) =>
        \A r \in ConcurrentRecords :
            (jobs[r].pc # "idle") =>
                /\ jobs[r].rec.otelSpanContext = setSpan(jobs[r].amb, SpanOf[r])
                /\ JobAt(r, "fn") # {}
                /\ \A i \in JobAt(r, "fn") :
                      jobs[r].log[i].active = jobs[r].rec.otelSpanContext
                /\ \A i \in DOMAIN jobs[r].log :
                      jobs[r].log[i].ev \in Events => jobs[r].log[i].data.foo = r

C29_Witness ==
    /\ rt = "storage" /\ hasSubscribers("start")
    /\ jobs["r1"].pc = "resumed" /\ jobs["r2"].pc = "done"
    /\ jobs["r1"].amb = jobs["r2"].amb
    /\ Cardinality(JobAt("r1", "fn")) = 2 /\ Cardinality(JobAt("r2", "fn")) = 2
    /\ als = Ctx("root", "spanA")
    /\ \A i \in JobAt("r2", "fn") : jobs["r2"].log[i].active = Ctx("root", "spanB")

C31_CallbackExactlyOnce ==
    (inv.kind # "none") => Cardinality(At("fn")) = 1

\* C32: a channel built by the transform-based factory while the runtime's
\* storage could not be reached has no transform bound: whatever the runtime
\* becomes later, no traceSync calls the caller's span-creation function, no
\* record gains a span field, and every traceSync calls the subscribed start,
\* error and end handlers around the callback, in the caller's own context,
\* and ends with the callback's own result or error.
C32_NoTransformWithoutStorage ==
    (xform.ret # "none" /\ xform.runtime # "storage") =>
        /\ ~xform.bound
        /\ xform.calls = 0
        /\ \A r \in RecordIds : rec[r].span = "undefined"
        /\ (inv.kind = "sync") =>
              /\ Called = IF channelHasSubscribers
                          THEN Registered("start") \o <<CallbackRan>>
                                  \o (IF inv.outcome = "throw"
                                      THEN Registered("error") ELSE <<>>)
                                  \o Registered("end")
                          ELSE <<CallbackRan>>
              /\ \A i \in DOMAIN log : log[i].active = Observed(rt, inv.amb)
              /\ inv.result = Direct(inv.outcome)

C32_Witness ==
    /\ xform.ret = "spanA" /\ xform.runtime = "null" /\ rt = "storage"
    /\ inv.kind = "sync" /\ inv.pc = "done" /\ inv.outcome = "return"
    /\ inv.amb = Ctx("request", "outerSpan")
    /\ At("start") # {} /\ At("fn") # {} /\ At("end") # {}
    /\ xform.calls = 0
    /\ inv.result = Result(TRUE, "value-42")

\* the events whose handlers have been called in the invocation
EventsPublished == {log[i].ev : i \in DOMAIN log} \cap Events

\* the subscribed ones among a set of events
Subscribed(evs) == {ev \in evs : hasSubscribers(ev)}

C34_EveryInvocationTerminates ==
    /\ [](inv.kind = "sync" => inv.pc = "done")
    /\ (inv.kind = "promise" /\ inv.pc \in {"await", "settled"} /\ At("fn") # {})
         ~> (/\ inv.kind = "promise" /\ inv.pc = "done"
             /\ inv.result = Direct(inv.outcome)
             /\ At("observe") # {}
             /\ (~inv.fast /\ hasSubscribers("end")) => At("end") # {})

C34_Witness ==
    /\ inv.kind = "promise" /\ inv.pc = "done" /\ inv.outcome = "reject"
    /\ rt = "storage" /\ rec[inv.r].otelSpanContext # NoCtx
    /\ hasSubscribers("end") /\ At("end") # {} /\ At("observe") # {}
    /\ inv.result = Result(FALSE, "error-x")

\* C35: with several start handlers subscribed, the record holds one captured
\* context once start has been published: the context that was active for the
\* caller, carrying the span returned by the last called of the handlers that
\* return a recognised span.  A handler called later that returns no span
\* leaves it in place.
C35_LastSpanHandlerWins ==
    (inv.kind # "none" /\ SpanStarts # {} /\ ~ActiveThrows(rt)) =>
        /\ rec[inv.r].otelSpanContext = setSpan(active(rt, inv.amb), LastSpan)
        /\ \A i \in At("start") : log[i].active = Observed(rt, inv.amb)

C35_Witness ==
    /\ inv.kind = "promise" /\ rt = "storage" /\ inv.pc = "await"
    /\ inv.amb = Ctx("request", "outerSpan")
    /\ Len(chan["start"]) = 2 /\ Cardinality(SpanStarts) = 2
    /\ Called[1] = <<"start", "s1">> /\ Called[2] = <<"start", "s2">>
    /\ log[2].data.otelSpanContext = Ctx("request", "spanA")
    /\ rec[inv.r].otelSpanContext = Ctx("request", "spanB")
    /\ \E i \in At("fn") : log[i].active = Ctx("request", "spanB")

====
